---------------------------- MODULE Spec2Model ----------------------------
(***************************************************************************)
(* Turn-management state machine of gemini_chess (src/main.py).            *)
(*                                                                         *)
(* ChessGameState is the record state with the fields board, turn,         *)
(* history, move_count, game_over and result.  The rules oracle is the     *)
(* `chess` library the program calls (chess.Board(fen), parse_san,         *)
(* legal_moves, push, fen, is_game_over, result, san); it is modelled here *)
(* by what the calls do: a Board carries a move stack that its FEN does    *)
(* not, the FEN shows an en-passant square only when a legal en-passant    *)
(* capture exists, and move text is a sequence of characters that          *)
(* parse_san matches.                                                      *)
(***************************************************************************)
EXTENDS Integers, Sequences, FiniteSets, TLC

(***************************************************************************)
(* Squares, pieces and colours.  a1 = 0, h1 = 7, a8 = 56, h8 = 63.         *)
(***************************************************************************)
Squares == 0..63

File(s) == s % 8

Rank(s) == s \div 8

Sq(f, r) == r * 8 + f

OnBoard(f, r) == f \in 0..7 /\ r \in 0..7

FileNames == <<"a", "b", "c", "d", "e", "f", "g", "h">>

RankNames == <<"1", "2", "3", "4", "5", "6", "7", "8">>

FileChars == {"a", "b", "c", "d", "e", "f", "g", "h"}

RankChars == {"1", "2", "3", "4", "5", "6", "7", "8"}

FileIndex(c) == CHOOSE i \in 0..7 : FileNames[i + 1] = c

RankIndex(c) == CHOOSE i \in 0..7 : RankNames[i + 1] = c

WhitePieces == {"P", "N", "B", "R", "Q", "K"}

BlackPieces == {"p", "n", "b", "r", "q", "k"}

Empty == "."

\* piece type (lower-case letter) of a piece symbol
PieceType(p) ==
    CASE p \in {"P", "p"} -> "p"
      [] p \in {"N", "n"} -> "n"
      [] p \in {"B", "b"} -> "b"
      [] p \in {"R", "r"} -> "r"
      [] p \in {"Q", "q"} -> "q"
      [] p \in {"K", "k"} -> "k"

\* the symbol of a piece of type t (lower-case) and colour c ("w" / "b")
Piece(c, t) ==
    IF c = "b" THEN t
    ELSE CASE t = "p" -> "P" [] t = "n" -> "N" [] t = "b" -> "B"
           [] t = "r" -> "R" [] t = "q" -> "Q" [] t = "k" -> "K"

Upper(t) == Piece("w", t)

ColorOf(p) == IF p \in WhitePieces THEN "w" ELSE "b"

Other(c) == IF c = "w" THEN "b" ELSE "w"

IsColor(pcs, s, c) == pcs[s] # Empty /\ ColorOf(pcs[s]) = c

KnightSteps == {<<1, 2>>, <<2, 1>>, <<2, -1>>, <<1, -2>>,
                <<-1, -2>>, <<-2, -1>>, <<-2, 1>>, <<-1, 2>>}

KingSteps == {<<1, 0>>, <<1, 1>>, <<0, 1>>, <<-1, 1>>,
              <<-1, 0>>, <<-1, -1>>, <<0, -1>>, <<1, -1>>}

RookDirs == {<<1, 0>>, <<0, 1>>, <<-1, 0>>, <<0, -1>>}

BishopDirs == {<<1, 1>>, <<-1, 1>>, <<-1, -1>>, <<1, -1>>}

\* squares reached by single steps from s
StepTargets(s, steps) ==
    {Sq(File(s) + d[1], Rank(s) + d[2]) :
        d \in {e \in steps : OnBoard(File(s) + e[1], Rank(s) + e[2])}}

\* squares along one direction from (f, r), up to and including the first
\* occupied square
RECURSIVE Slide(_, _, _, _, _)
Slide(pcs, f, r, df, dr) ==
    IF ~OnBoard(f + df, r + dr) THEN {}
    ELSE IF pcs[Sq(f + df, r + dr)] # Empty THEN {Sq(f + df, r + dr)}
    ELSE {Sq(f + df, r + dr)} \cup Slide(pcs, f + df, r + dr, df, dr)

SlideTargets(pcs, s, dirs) ==
    UNION {Slide(pcs, File(s), Rank(s), d[1], d[2]) : d \in dirs}

\* the first occupied square along one direction, or -1
RECURSIVE FirstHit(_, _, _, _, _)
FirstHit(pcs, f, r, df, dr) ==
    IF ~OnBoard(f + df, r + dr) THEN -1
    ELSE IF pcs[Sq(f + df, r + dr)] # Empty THEN Sq(f + df, r + dr)
    ELSE FirstHit(pcs, f + df, r + dr, df, dr)

\* the square h holds one of the pieces (h = -1: no square)
HitIs(pcs, h, pieces) == h # -1 /\ pcs[h] \in pieces

\* a pawn of colour c stands on file f, rank r
PawnOn(pcs, c, f, r) == OnBoard(f, r) /\ pcs[Sq(f, r)] = Piece(c, "p")

\* chess.Board.is_attacked_by: does a piece of colour c attack square s
IsAttackedBy(pcs, c, s) ==
    \/ \E t \in StepTargets(s, KnightSteps) : pcs[t] = Piece(c, "n")
    \/ \E t \in StepTargets(s, KingSteps) : pcs[t] = Piece(c, "k")
    \/ \E df \in {-1, 1} :
          PawnOn(pcs, c, File(s) + df, IF c = "w" THEN Rank(s) - 1 ELSE Rank(s) + 1)
    \/ \E d \in RookDirs :
          HitIs(pcs, FirstHit(pcs, File(s), Rank(s), d[1], d[2]),
                {Piece(c, "r"), Piece(c, "q")})
    \/ \E d \in BishopDirs :
          HitIs(pcs, FirstHit(pcs, File(s), Rank(s), d[1], d[2]),
                {Piece(c, "b"), Piece(c, "q")})

KingSquare(pcs, c) == CHOOSE s \in Squares : pcs[s] = Piece(c, "k")

\* the king of colour c is not attacked on the placement pcs
KingSafe(pcs, c) == ~IsAttackedBy(pcs, Other(c), KingSquare(pcs, c))

\* chess.Board.is_check
InCheck(b) == ~KingSafe(b.pieces, b.turn)

(***************************************************************************)
(* Moves.  A move is [from, to, promo], promo "" or a piece type.          *)
(***************************************************************************)
Move(f, t, p) == [from |-> f, to |-> t, promo |-> p]

\* chess.Move.null()
NullMove == Move(0, 0, "")

PromoTypes == <<"q", "r", "b", "n">>

IsCastling(b, m) ==
    /\ PieceType(b.pieces[m.from]) = "k"
    /\ File(m.from) - File(m.to) \in {2, -2}

IsEnPassant(b, m) ==
    /\ PieceType(b.pieces[m.from]) = "p"
    /\ m.to = b.ep
    /\ File(m.from) # File(m.to)
    /\ b.pieces[m.to] = Empty

IsCapture(b, m) == b.pieces[m.to] # Empty \/ IsEnPassant(b, m)

\* the placement after move m (the piece part of chess.Board.push)
PiecesAfter(b, m) ==
    LET p    == b.pieces[m.from]
        c    == ColorOf(p)
        put  == IF m.promo # "" THEN Piece(c, m.promo) ELSE p
        base == [b.pieces EXCEPT ![m.from] = Empty, ![m.to] = put]
    IN  IF IsEnPassant(b, m)
        THEN [base EXCEPT ![Sq(File(m.to), Rank(m.from))] = Empty]
        ELSE IF IsCastling(b, m)
        THEN IF File(m.to) = 6
             THEN [base EXCEPT ![Sq(7, Rank(m.from))] = Empty,
                               ![Sq(5, Rank(m.from))] = Piece(c, "r")]
             ELSE [base EXCEPT ![Sq(0, Rank(m.from))] = Empty,
                               ![Sq(3, Rank(m.from))] = Piece(c, "r")]
        ELSE base

\* targets of the piece moves of the non-pawn piece on s (attacks_mask & ~ours)
PieceTargets(b, s) ==
    LET t   == PieceType(b.pieces[s])
        all == CASE t = "n" -> StepTargets(s, KnightSteps)
                 [] t = "k" -> StepTargets(s, KingSteps)
                 [] t = "r" -> SlideTargets(b.pieces, s, RookDirs)
                 [] t = "b" -> SlideTargets(b.pieces, s, BishopDirs)
                 [] t = "q" -> SlideTargets(b.pieces, s, RookDirs \cup BishopDirs)
    IN  {x \in all : ~IsColor(b.pieces, x, b.turn)}

Forward(c) == IF c = "w" THEN 1 ELSE -1

WithPromotions(s, t) ==
    IF Rank(t) \in {0, 7}
    THEN {Move(s, t, PromoTypes[i]) : i \in 1..4}
    ELSE {Move(s, t, "")}

\* pawn captures, single and double advances and en passant of the pawn on s
PawnMoves(b, s) ==
    LET c    == b.turn
        f    == File(s)
        r    == Rank(s)
        r1   == r + Forward(c)
        home == IF c = "w" THEN 1 ELSE 6
        caps == {Sq(f + df, r1) : df \in {d \in {-1, 1} : OnBoard(f + d, r1)}}
    IN  UNION {WithPromotions(s, t) : t \in {x \in caps : IsColor(b.pieces, x, Other(c))}}
        \cup (IF OnBoard(f, r1) /\ b.pieces[Sq(f, r1)] = Empty
              THEN WithPromotions(s, Sq(f, r1)) ELSE {})
        \cup (IF r = home /\ b.pieces[Sq(f, r1)] = Empty
                 /\ b.pieces[Sq(f, r1 + Forward(c))] = Empty
              THEN {Move(s, Sq(f, r1 + Forward(c)), "")} ELSE {})
        \cup {Move(s, t, "") : t \in {x \in caps : x = b.ep /\ b.pieces[x] = Empty
                                        /\ r = (IF c = "w" THEN 4 ELSE 3)}}

\* chess.Board.generate_castling_moves (standard chess)
CastlingMoves(b) ==
    LET c  == b.turn
        r  == IF c = "w" THEN 0 ELSE 7
        k  == Sq(4, r)
        ks == IF c = "w" THEN "K" ELSE "k"
        qs == IF c = "w" THEN "Q" ELSE "q"
        free(fs) == \A f \in fs : b.pieces[Sq(f, r)] = Empty
        safe(fs) == \A f \in fs : ~IsAttackedBy(b.pieces, Other(c), Sq(f, r))
    IN  IF b.pieces[k] # Piece(c, "k") THEN {}
        ELSE (IF ks \in b.castling /\ b.pieces[Sq(7, r)] = Piece(c, "r")
                 /\ free({5, 6}) /\ safe({4, 5, 6})
              THEN {Move(k, Sq(6, r), "")} ELSE {})
             \cup
             (IF qs \in b.castling /\ b.pieces[Sq(0, r)] = Piece(c, "r")
                 /\ free({1, 2, 3}) /\ safe({4, 3, 2})
              THEN {Move(k, Sq(2, r), "")} ELSE {})

\* chess.Board.generate_pseudo_legal_moves, as a set
PseudoLegalMoves(b) ==
    LET own == {s \in Squares : IsColor(b.pieces, s, b.turn)}
    IN  UNION {IF PieceType(b.pieces[s]) = "p"
               THEN PawnMoves(b, s)
               ELSE {Move(s, t, "") : t \in PieceTargets(b, s)} : s \in own}
        \cup CastlingMoves(b)

\* chess.Board._is_safe: the mover's king is not attacked after the move
IsSafe(b, m) == KingSafe(PiecesAfter(b, m), b.turn)

\* chess.Board.legal_moves, as a set
LegalMoves(b) == {m \in PseudoLegalMoves(b) : IsSafe(b, m)}

\* generate_legal_moves(to_mask = {to}): the legal moves that reach square to
LegalMovesTo(b, to) == {m \in PseudoLegalMoves(b) : m.to = to /\ IsSafe(b, m)}

\* move in board.legal_moves (chess.Board.is_legal)
IsLegal(b, m) == m \in PseudoLegalMoves(b) /\ IsSafe(b, m)

\* any(board.legal_moves)
HasLegalMove(b) == \E m \in PseudoLegalMoves(b) : IsSafe(b, m)



PromoRank(p) == CHOOSE i \in 0..4 : (i = 0 /\ p = "") \/ (i > 0 /\ PromoTypes[i] = p)

\* Position of move m in the enumeration order of chess.Board.legal_moves
\* (generate_legal_moves): with the king in check the king's moves come first
\* (_generate_evasions); otherwise piece moves by from-square and to-square,
\* highest square first (scan_reversed), then castling, pawn captures, single
\* advances, double advances and en passant.
MoveKey(b, m) ==
    LET t == PieceType(b.pieces[m.from])
        a == 63 - m.from
        z == 63 - m.to
    IN  IF t # "p"
        THEN IF IsCastling(b, m)
             THEN 200000 + (IF File(m.to) = 6 THEN 0 ELSE 1)
             ELSE (IF t = "k" /\ InCheck(b) THEN 0 ELSE 100000) + a * 1000 + z * 10
        ELSE IF IsEnPassant(b, m) THEN 600000 + a * 1000
        ELSE IF File(m.from) # File(m.to)
             THEN 300000 + a * 1000 + z * 10 + PromoRank(m.promo)
        ELSE IF m.to - m.from \in {8, -8}
             THEN 400000 + z * 10 + PromoRank(m.promo)
        ELSE 500000 + z * 10

\* the first of the moves lm in enumeration order
FirstOf(b, lm) == CHOOSE m \in lm : \A o \in lm : MoveKey(b, m) <= MoveKey(b, o)

\* list(board.legal_moves)[0]
FirstLegalMove(b) == FirstOf(b, LegalMoves(b))

(***************************************************************************)
(* Positions.  A FEN is the record of its six fields; a Board is a FEN     *)
(* plus the stack of the positions it went through (chess.Board keeps the  *)
(* move stack, which board.fen() does not encode).                         *)
(***************************************************************************)
StartingPieces ==
    [s \in Squares |->
        CASE Rank(s) = 0 -> <<"R", "N", "B", "Q", "K", "B", "N", "R">>[File(s) + 1]
          [] Rank(s) = 1 -> "P"
          [] Rank(s) = 6 -> "p"
          [] Rank(s) = 7 -> <<"r", "n", "b", "q", "k", "b", "n", "r">>[File(s) + 1]
          [] OTHER -> Empty]

\* chess.STARTING_FEN
STARTING_FEN ==
    [pieces |-> StartingPieces, turn |-> "w", castling |-> {"K", "Q", "k", "q"},
     ep |-> -1, halfmove |-> 0, fullmove |-> 1]

\* a board built from the placement, the turn and the castling rights alone:
\* the en-passant square and the move counters of the FEN are dropped
BoardFromFen_drops_counters(fen) ==
    [pieces |-> fen.pieces, turn |-> fen.turn, castling |-> fen.castling,
     ep |-> -1, halfmove |-> 0, fullmove |-> 1, stack |-> <<>>]

\* chess.Board(fen): the fields of the FEN and an empty move stack
BoardFromFen(fen) ==
    [pieces |-> fen.pieces, turn |-> fen.turn, castling |-> fen.castling,
     ep |-> fen.ep, halfmove |-> fen.halfmove, fullmove |-> fen.fullmove,
     stack |-> <<>>]

\* chess.Board.has_legal_en_passant
HasLegalEnPassant(b) ==
    /\ b.ep # -1
    /\ \E s \in {x \in Squares : b.pieces[x] = Piece(b.turn, "p")} :
          \E m \in PawnMoves(b, s) : IsEnPassant(b, m) /\ IsSafe(b, m)

\* the en-passant square as board.fen() and the transposition key show it
LegalEp(b) == IF HasLegalEnPassant(b) THEN b.ep ELSE -1

\* board.fen(): the en-passant field is written only when a legal en-passant
\* capture exists; the move stack is not part of the FEN
Fen(b) ==
    [pieces |-> b.pieces, turn |-> b.turn, castling |-> b.castling,
     ep |-> LegalEp(b), halfmove |-> b.halfmove, fullmove |-> b.fullmove]

\* chess.Board._transposition_key
TranspositionKey(b) ==
    [pieces |-> b.pieces, turn |-> b.turn, castling |-> b.castling, ep |-> LegalEp(b)]

\* castling rights lost when a move leaves or reaches square s
RightsOf(s) ==
    CASE s = 0 -> {"Q"} [] s = 7 -> {"K"} [] s = 4 -> {"K", "Q"}
      [] s = 56 -> {"q"} [] s = 63 -> {"k"} [] s = 60 -> {"k", "q"}
      [] OTHER -> {}

IsPawnMove(b, m) == PieceType(b.pieces[m.from]) = "p"

\* chess.Board.push: a null move passes the turn and clears the en-passant
\* square
Push(b, m) ==
    IF m = NullMove
    THEN [b EXCEPT !.turn = Other(@), !.ep = -1, !.halfmove = @ + 1,
                   !.fullmove = IF b.turn = "b" THEN @ + 1 ELSE @,
                   !.stack = Append(@, TranspositionKey(b))]
    ELSE
    [pieces   |-> PiecesAfter(b, m),
     turn     |-> Other(b.turn),
     castling |-> (b.castling \ RightsOf(m.from)) \ RightsOf(m.to),
     ep       |-> IF IsPawnMove(b, m) /\ m.to - m.from \in {16, -16}
                  THEN (m.from + m.to) \div 2 ELSE -1,
     halfmove |-> IF IsPawnMove(b, m) \/ IsCapture(b, m) THEN 0 ELSE b.halfmove + 1,
     fullmove |-> IF b.turn = "b" THEN b.fullmove + 1 ELSE b.fullmove,
     stack    |-> Append(b.stack, TranspositionKey(b))]

(***************************************************************************)
(* Terminal detection: chess.Board.outcome(), is_game_over() and result(). *)
(***************************************************************************)
\* halfmove clock at which is_seventyfive_moves() holds
SeventyFiveHalfmoves == 150

\* occurrences of a position at which is_fivefold_repetition() holds
FivefoldCount == 5

DarkSquare(s) == (File(s) + Rank(s)) % 2 = 0

\* the squares of S that hold a piece of one of the types
OfType(pcs, S, types) == {s \in S : pcs[s] # Empty /\ PieceType(pcs[s]) \in types}

\* chess.Board.has_insufficient_material(color), own and theirs the squares of
\* the pieces of that colour and of the other
InsufficientFor(pcs, own, theirs) ==
    IF OfType(pcs, own, {"p", "r", "q"}) # {} THEN FALSE
    ELSE IF OfType(pcs, own, {"n"}) # {}
    THEN Cardinality(own) <= 2 /\ OfType(pcs, theirs, {"p", "n", "b", "r"}) = {}
    ELSE IF OfType(pcs, own, {"b"}) # {}
    THEN /\ \/ \A s \in OfType(pcs, Squares, {"b"}) : DarkSquare(s)
            \/ \A s \in OfType(pcs, Squares, {"b"}) : ~DarkSquare(s)
         /\ OfType(pcs, Squares, {"p", "n"}) = {}
    ELSE TRUE

PiecesOf(pcs, c) == {s \in Squares : IsColor(pcs, s, c)}

\* chess.Board.is_insufficient_material
IsInsufficientMaterial(b) ==
    /\ InsufficientFor(b.pieces, PiecesOf(b.pieces, "w"), PiecesOf(b.pieces, "b"))
    /\ InsufficientFor(b.pieces, PiecesOf(b.pieces, "b"), PiecesOf(b.pieces, "w"))

\* occurrences of the position with key k on the stack
Occurrences(stack, k) == Cardinality({i \in 1..Len(stack) : stack[i] = k})

\* chess.Board.is_repetition(count): earlier occurrences are found by walking
\* back the move stack
IsRepetition(b, count) == Occurrences(b.stack, TranspositionKey(b)) + 1 >= count

IsFivefoldRepetition(b) == IsRepetition(b, FivefoldCount)

\* chess.Board.outcome(), given whether the side to move is in check and
\* whether it has a legal move: the termination, "none" while the game is on
OutcomeOf(b, check, moves) ==
    IF check /\ ~moves THEN "checkmate"
    ELSE IF IsInsufficientMaterial(b) THEN "insufficient_material"
    ELSE IF ~moves THEN "stalemate"
    ELSE IF b.halfmove >= SeventyFiveHalfmoves THEN "seventyfive_moves"
    ELSE IF IsFivefoldRepetition(b) THEN "fivefold_repetition"
    ELSE "none"

Outcome(b) == OutcomeOf(b, InCheck(b), HasLegalMove(b))

\* chess.Board.is_game_over()
IsGameOver(b) == Outcome(b) # "none"

\* chess.Board.result() of a board whose outcome is out
ResultOf(b, out) ==
    IF out = "checkmate" THEN (IF b.turn = "w" THEN "0-1" ELSE "1-0")
    ELSE IF out = "none" THEN "*"
    ELSE "1/2-1/2"

(***************************************************************************)
(* Standard algebraic notation.  Move text is a sequence of characters.    *)
(***************************************************************************)
SquareName(s) == <<FileNames[File(s) + 1], RankNames[Rank(s) + 1]>>

PieceChars == {"N", "B", "K", "R", "Q"}

PromoChars == {"n", "b", "r", "q", "k", "N", "B", "R", "Q", "K"}

LowerOf(c) ==
    CASE c \in {"n", "N"} -> "n" [] c \in {"b", "B"} -> "b" [] c \in {"r", "R"} -> "r"
      [] c \in {"q", "Q"} -> "q" [] c \in {"k", "K"} -> "k"

KingsideTexts == {<<"O", "-", "O">>, <<"O", "-", "O", "+">>, <<"O", "-", "O", "#">>,
                  <<"0", "-", "0">>, <<"0", "-", "0", "+">>, <<"0", "-", "0", "#">>}

QueensideTexts == {<<"O", "-", "O", "-", "O">>, <<"O", "-", "O", "-", "O", "+">>,
                   <<"O", "-", "O", "-", "O", "#">>, <<"0", "-", "0", "-", "0">>,
                   <<"0", "-", "0", "-", "0", "+">>, <<"0", "-", "0", "-", "0", "#">>}

NoMatch == [ok |-> FALSE, piece |-> "", ffile |-> "", frank |-> "", to |-> -1, promo |-> ""]

\* chess.SAN_REGEX,
\*   ^([NBKRQ])?([a-h])?([1-8])?[\-x]?([a-h][1-8])(=?[nbrqkNBRQK])?[\+#]?\Z
\* is matched from the end of the text.  The text without the check mark has
\* n1 characters.
SanLength(text) ==
    IF Len(text) > 0 /\ text[Len(text)] \in {"+", "#"} THEN Len(text) - 1 ELSE Len(text)

\* characters of the promotion group that ends at n1
PromoLength(text, n1) ==
    IF n1 > 0 /\ text[n1] \in PromoChars
    THEN (IF n1 > 1 /\ text[n1 - 1] = "=" THEN 2 ELSE 1)
    ELSE 0

\* characters before the target square that ends at n2, the capture mark left out
OriginLength(text, n2) ==
    IF n2 > 2 /\ text[n2 - 2] \in {"-", "x"} THEN n2 - 3 ELSE n2 - 2

\* the groups before the target square: text[1..n4] must be a piece letter, a
\* file and a rank, each optional, in that order
SanOrigin(text, n4) ==
    LET hasPiece == n4 >= 1 /\ text[1] \in PieceChars
        i1 == IF n4 >= 1 /\ text[1] \in PieceChars THEN 2 ELSE 1
        hasFile == i1 <= n4 /\ text[i1] \in FileChars
        i2 == IF hasFile THEN i1 + 1 ELSE i1
        hasRank == i2 <= n4 /\ text[i2] \in RankChars
    IN  [ok |-> (IF hasRank THEN i2 + 1 ELSE i2) = n4 + 1,
         piece |-> IF hasPiece THEN LowerOf(text[1]) ELSE "",
         ffile |-> IF hasFile THEN text[i1] ELSE "",
         frank |-> IF hasRank THEN text[i2] ELSE ""]

\* the groups of a text whose target square ends at n2 and whose promotion
\* group ends at n1
SanGroups(text, n1, n2, origin) ==
    IF n2 >= 2 /\ text[n2 - 1] \in FileChars /\ text[n2] \in RankChars /\ origin.ok
    THEN [ok |-> TRUE, piece |-> origin.piece, ffile |-> origin.ffile,
          frank |-> origin.frank,
          to |-> Sq(FileIndex(text[n2 - 1]), RankIndex(text[n2])),
          promo |-> IF n1 > n2 THEN LowerOf(text[n1]) ELSE ""]
    ELSE NoMatch

SanMatchAt(text, n1, n2) ==
    IF n2 < 2 THEN NoMatch
    ELSE SanGroups(text, n1, n2, SanOrigin(text, OriginLength(text, n2)))

SanMatchTo(text, n1) == SanMatchAt(text, n1, n1 - PromoLength(text, n1))

\* SAN_REGEX.match(san): ok says whether the text matches; the groups are
\* piece, ffile, frank ("" when absent), to and promo
SanMatch(text) == SanMatchTo(text, SanLength(text))

\* the legal moves that parse_san matches against the groups of the text
SanCandidates(b, g) ==
    {m \in LegalMovesTo(b, g.to) :
        /\ IsCastling(b, m) => (g.piece = "" /\ g.ffile # "" /\ g.frank # "")
        /\ m.promo = g.promo
        /\ g.ffile # "" => File(m.from) = FileIndex(g.ffile)
        /\ g.frank # "" => Rank(m.from) = RankIndex(g.frank)
        /\ IF g.piece # "" THEN PieceType(b.pieces[m.from]) = g.piece
           ELSE IF g.ffile # "" /\ g.frank # "" THEN TRUE
           ELSE /\ PieceType(b.pieces[m.from]) = "p"
                /\ g.ffile = "" => File(m.from) = File(m.to)}

NoMove == Move(-1, -1, "")

\* the texts parse_san reads as the null move
NullTexts == {<<"-", "-">>, <<"Z", "0">>, <<"0", "0", "0", "0">>, <<"@", "@", "@", "@">>}

\* the one move of the set: none is an IllegalMoveError, several an
\* AmbiguousMoveError
TheMove(cands) ==
    IF cands = {} THEN [status |-> "illegal", move |-> NoMove]
    ELSE IF Cardinality(cands) > 1 THEN [status |-> "ambiguous", move |-> NoMove]
    ELSE [status |-> "ok", move |-> CHOOSE m \in cands : TRUE]

\* parse_san of text the regular expression matched with groups g
ParseGroups(b, g) ==
    IF ~g.ok THEN [status |-> "invalid", move |-> NoMove]
    ELSE TheMove(SanCandidates(b, g))

\* board.parse_san(text): [status, move]; status "invalid" (InvalidMoveError),
\* "illegal" (IllegalMoveError), "ambiguous" (AmbiguousMoveError) are the
\* exceptions the call raises, "ok" its normal return.  The move returned is
\* a legal move or, for the texts the expression does not match that stand
\* for it, the null move.
ParseSan(b, text) ==
    IF text \in KingsideTexts \cup QueensideTexts
    THEN TheMove({m \in CastlingMoves(b) :
                    File(m.to) = (IF text \in KingsideTexts THEN 6 ELSE 2)})
    ELSE IF text \in NullTexts THEN [status |-> "ok", move |-> NullMove]
    ELSE ParseGroups(b, SanMatch(text))

\* the file and rank that tell move m from the other legal moves of the same
\* piece type to the same square
SanDisambiguation(b, m, others) ==
    (IF others # {} /\ (\/ \E o \in others : Rank(o.from) = Rank(m.from)
                        \/ \A o \in others : File(o.from) # File(m.from))
     THEN <<FileNames[File(m.from) + 1]>> ELSE <<>>)
    \o (IF \E o \in others : File(o.from) = File(m.from)
        THEN <<RankNames[Rank(m.from) + 1]>> ELSE <<>>)

SanOthers(b, m) ==
    {o \in LegalMovesTo(b, m.to) :
        /\ o.from # m.from
        /\ PieceType(b.pieces[o.from]) = PieceType(b.pieces[m.from])
        /\ ~IsCastling(b, o)}

\* the notation of move m without the check mark
SanBody(b, m) ==
    IF IsCastling(b, m)
    THEN (IF File(m.to) = 6 THEN <<"O", "-", "O">> ELSE <<"O", "-", "O", "-", "O">>)
    ELSE (IF IsPawnMove(b, m)
          THEN (IF IsCapture(b, m) THEN <<FileNames[File(m.from) + 1]>> ELSE <<>>)
          ELSE <<Upper(PieceType(b.pieces[m.from]))>>
               \o SanDisambiguation(b, m, SanOthers(b, m)))
         \o (IF IsCapture(b, m) THEN <<"x">> ELSE <<>>)
         \o SquareName(m.to)
         \o (IF m.promo # "" THEN <<"=", Upper(m.promo)>> ELSE <<>>)

\* "+" when the board after the move is in check, "#" when it is checkmate
SanSuffix(after) ==
    IF InCheck(after) THEN (IF HasLegalMove(after) THEN <<"+">> ELSE <<"#">>) ELSE <<>>

\* board.san(move)
San(b, m) == SanBody(b, m) \o SanSuffix(Push(b, m))


(***************************************************************************)
(* Inputs: the move texts callers and proposers supply, and the replies of *)
(* the proposer (client.models.generate_content).                          *)
(***************************************************************************)
e4 == <<"e", "4">>

e5 == <<"e", "5">>

d5 == <<"d", "5">>

f3 == <<"f", "3">>

f5 == <<"f", "5">>

g4 == <<"g", "4">>

exf6 == <<"e", "x", "f", "6">>

Qh4 == <<"Q", "h", "4">>

Nc3 == <<"N", "c", "3">>

Ne2 == <<"N", "e", "2">>

Nf3 == <<"N", "f", "3">>

Nf6 == <<"N", "f", "6">>

Ng1 == <<"N", "g", "1">>

Ng8 == <<"N", "g", "8">>

\* text that is not a move
Garbage == <<"x", "x">>

\* the null move as text
NullText == <<"-", "-">>

\* move_str of direct apply_move calls: an en-passant line (e4 d5 e5 f5 exf6),
\* an ambiguous text (Ne2 after e4 and Nc3) and text that is no move
MoveTexts == {e4, e5, d5, f5, exf6, Nc3, Ne2, Garbage}

\* the moves a proposer answers: f3 e5 g4 Qh4# is a checkmate in four plies
ProposerTexts == {f3, e5, g4, Qh4}

\* knight moves that shuffle between two positions without a capture or a
\* pawn move
ShuffleTexts == {Nf3, Nf6, Ng1, Ng8}

\* plies of direct apply_move calls
MaxPlies == 5

\* plies of the turn controller
MaxTurns == 5

\* plies of the knight shuffle: the halfmove clock passes SeventyFiveHalfmoves
MaxShuffle == 152

\* largest max_moves handed to play_full_game
MaxMatch == 5

\* files in the games directory
MaxFiles == 4

\* seconds the clock passes through
MaxClock == 2

\* recorded moves in a file handed to replay_game
MaxRecord == 3

\* a proposer call that gave no ChessMoveResponse: the call raised ("raise"),
\* response.text is None ("empty"), or model_validate_json raised ("malformed")
FailedReply(k) == [kind |-> k, move |-> <<>>, evaluation |-> 0, explanation |-> "none"]

\* a reply whose text is the JSON of a ChessMoveResponse with move t
JsonReply(t) == [kind |-> "json", move |-> t, evaluation |-> 1, explanation |-> "analysis"]

FailKinds == {"raise", "empty", "malformed"}

Replies == {JsonReply(t) : t \in ProposerTexts} \cup {FailedReply(k) : k \in FailKinds}

\* the request was not made
NotAsked == FailedReply("none")

\* ChessMoveResponse.model_validate_json(response.text)
ChessMoveResponse(r) ==
    [move |-> r.move, evaluation |-> r.evaluation, explanation |-> r.explanation]

NoResponse == [move |-> <<>>, evaluation |-> 0, explanation |-> "none"]

(***************************************************************************)
(* The program.  state is self.state; last is what the latest call gave    *)
(* its caller, with the replies the proposer gave during it; oracle is one *)
(* chess.Board the moves the program applied are pushed on directly;       *)
(* applied counts the apply_move calls that returned True; pc, max_moves,  *)
(* game_log and game_summary are play_full_game's position and locals;     *)
(* asked counts the proposer requests made since play_full_game was        *)
(* entered and iterations the passes of its while loop; files is the games *)
(* directory, clock the second datetime.now() shows, saved what the latest *)
(* save_game call did; replay is replay_game's position and locals.        *)
(***************************************************************************)
VARIABLES state, last, oracle, applied, pc, max_moves, game_log, game_summary,
          asked, iterations, files, clock, saved, replay

\* what is outside a ChessGame: the games directory, the clock and a replay
outside == <<files, clock, saved, replay>>

vars == <<state, last, oracle, applied, pc, max_moves, game_log, game_summary,
          asked, iterations, files, clock, saved, replay>>

\* ChessGameState.new_game(); result None is written "None"
new_game ==
    [board |-> STARTING_FEN, turn |-> "white", history |-> <<>>, move_count |-> 0,
     game_over |-> FALSE, result |-> "None"]

\* is_valid_move once board.parse_san(move_str) has returned or raised: an
\* exception gives False, a move is looked up in board.legal_moves
ValidParsed(b, parsed) == parsed.status = "ok" /\ IsLegal(b, parsed.move)

\* ChessGame.is_valid_move
is_valid_move(s, move_str) ==
    ValidParsed(BoardFromFen(s.board), ParseSan(BoardFromFen(s.board), move_str))

\* apply_move setting game_over without the result
Updated_forgets_result(s, pushed, out) ==
    [board      |-> Fen(pushed),
     turn       |-> IF s.turn = "white" THEN "black" ELSE "white",
     history    |-> s.history,
     move_count |-> s.move_count + 1,
     game_over  |-> IF out # "none" THEN TRUE ELSE s.game_over,
     result     |-> s.result]

\* apply_move leaving self.state.turn as it was
Updated_keeps_turn(s, pushed, out) ==
    [board      |-> Fen(pushed),
     turn       |-> s.turn,
     history    |-> s.history,
     move_count |-> s.move_count + 1,
     game_over  |-> IF out # "none" THEN TRUE ELSE s.game_over,
     result     |-> IF out # "none" THEN ResultOf(pushed, out) ELSE s.result]

\* the assignments of apply_move after board.push(move): pushed is the board
\* after the move and out its outcome
Updated(s, pushed, out) ==
    [board      |-> Fen(pushed),
     turn       |-> IF s.turn = "white" THEN "black" ELSE "white",
     history    |-> s.history,
     move_count |-> s.move_count + 1,
     game_over  |-> IF out # "none" THEN TRUE ELSE s.game_over,
     result     |-> IF out # "none" THEN ResultOf(pushed, out) ELSE s.result]

StateAfter(s, pushed) == Updated(s, pushed, Outcome(pushed))

\* apply_move passing the turn on a move it rejects
ApplyParsed_flips_on_reject(s, b, parsed) ==
    IF parsed.status # "ok"
    THEN [ret |-> "False", why |-> parsed.status,
          state |-> [s EXCEPT !.turn = IF @ = "white" THEN "black" ELSE "white"]]
    ELSE IF ~IsLegal(b, parsed.move)
    THEN [ret |-> "False", why |-> "not legal", state |-> s]
    ELSE [ret |-> "True", why |-> "ok", state |-> StateAfter(s, Push(b, parsed.move))]

\* apply_move counting a move before it is parsed
ApplyParsed_counts_rejections(s, b, parsed) ==
    IF parsed.status # "ok"
    THEN [ret |-> "False", why |-> parsed.status,
          state |-> [s EXCEPT !.move_count = @ + 1]]
    ELSE IF ~IsLegal(b, parsed.move)
    THEN [ret |-> "False", why |-> "not legal", state |-> s]
    ELSE [ret |-> "True", why |-> "ok", state |-> StateAfter(s, Push(b, parsed.move))]

\* apply_move once board.parse_san(move_str) has returned or raised
ApplyParsed(s, b, parsed) ==
    IF parsed.status # "ok"
    THEN [ret |-> "False", why |-> parsed.status, state |-> s]
    ELSE IF ~IsLegal(b, parsed.move)
    THEN [ret |-> "False", why |-> "not legal", state |-> s]
    ELSE [ret |-> "True", why |-> "ok", state |-> StateAfter(s, Push(b, parsed.move))]

\* ChessGame.apply_move: [ret, why, state], the value returned ("True" /
\* "False"), why it was returned, and self.state after the call.  The board is
\* rebuilt from self.state.board on every call.
apply_move(s, move_str) ==
    ApplyParsed(s, BoardFromFen(s.board), ParseSan(BoardFromFen(s.board), move_str))

\* the except branch of get_ai_move on board b: the first legal move, or
\* ValueError("No legal moves available").  The explanation is written
\* without the text of the exception.
FallbackOn(b) ==
    IF ~HasLegalMove(b) THEN [raised |-> TRUE, response |-> NoResponse]
    ELSE [raised |-> FALSE,
          response |-> [move |-> San(b, FirstLegalMove(b)), evaluation |-> 0,
                        explanation |-> "Fallback move due to AI error"]]

fallback_move(s) == FallbackOn(BoardFromFen(s.board))

\* get_ai_move leaving through its except branch after n requests
Caught(f, n) == [raised |-> f.raised, requests |-> n, response |-> f.response]

\* get_ai_move with the second request outside the try block: its failure
\* reaches the caller
get_ai_move_propagates(s, r1, r2) ==
    IF r1.kind = "json" /\ is_valid_move(s, r1.move)
    THEN [raised |-> FALSE, requests |-> 1, response |-> ChessMoveResponse(r1)]
    ELSE IF r1.kind = "json" /\ r2.kind = "json"
    THEN [raised |-> FALSE, requests |-> 2, response |-> ChessMoveResponse(r2)]
    ELSE IF r1.kind = "json"
    THEN [raised |-> TRUE, requests |-> 2, response |-> NoResponse]
    ELSE Caught(fallback_move(s), 1)

\* get_ai_move asking again after a first request that failed
get_ai_move_retries_failures(s, r1, r2) ==
    IF r1.kind = "json" /\ is_valid_move(s, r1.move)
    THEN [raised |-> FALSE, requests |-> 1, response |-> ChessMoveResponse(r1)]
    ELSE IF r1.kind = "json" /\ r2.kind = "json"
    THEN [raised |-> FALSE, requests |-> 2, response |-> ChessMoveResponse(r2)]
    ELSE Caught(fallback_move(s), 2)

\* ChessGame.get_ai_move with r1 the reply to the first request and r2 the
\* reply to the second: [raised, requests, response].  The second request is
\* made when the first reply parsed and its move is not valid; its reply is
\* returned as it parsed.  Every failure of a request ends in the except
\* branch.
get_ai_move(s, r1, r2) ==
    IF r1.kind = "json" /\ is_valid_move(s, r1.move)
    THEN [raised |-> FALSE, requests |-> 1, response |-> ChessMoveResponse(r1)]
    ELSE IF r1.kind = "json" /\ r2.kind = "json"
    THEN [raised |-> FALSE, requests |-> 2, response |-> ChessMoveResponse(r2)]
    ELSE Caught(fallback_move(s), IF r1.kind = "json" THEN 2 ELSE 1)

\* play_turn once get_ai_move returned g and apply_move gave a
Applied(g, a) ==
    IF a.ret = "True"
    THEN [raised |-> FALSE, why |-> "ok", applied |-> TRUE, requests |-> g.requests,
          response |-> g.response,
          state |-> [a.state EXCEPT !.history = Append(@, g.response)]]
    ELSE [raised |-> TRUE, why |-> "Failed to apply move", applied |-> FALSE,
          requests |-> g.requests, response |-> NoResponse,
          state |-> a.state]

\* play_turn once get_ai_move gave g
TurnWith(s, g) ==
    IF g.raised
    THEN [raised |-> TRUE, why |-> "No legal moves available", applied |-> FALSE,
          requests |-> g.requests, response |-> NoResponse,
          state |-> s]
    ELSE Applied(g, apply_move(s, g.response.move))

\* ChessGame.play_turn: [raised, why, applied, requests, response, state]
play_turn(s, r1, r2) ==
    IF s.game_over
    THEN [raised |-> TRUE, why |-> "Game is already over", applied |-> FALSE,
          requests |-> 0, response |-> NoResponse, state |-> s]
    ELSE TurnWith(s, get_ai_move(s, r1, r2))

\* the while condition without the bound on move_count
loop_condition_ignores_max_moves(s, m) == ~s.game_over

\* the loop running on after the game is over
loop_condition_ignores_game_over(s, m) == s.move_count < m

\* the loop running while move_count <= max_moves
loop_condition_inclusive(s, m) == ~s.game_over /\ s.move_count <= m

\* the condition of play_full_game's while loop
loop_condition(s, m) == ~s.game_over /\ s.move_count < m

\* the entry naming the side to move after the turn
log_entry_names_next_side(s, response) ==
    [move_number |-> s.move_count,
     color       |-> s.turn,
     move        |-> response.move,
     evaluation  |-> response.evaluation,
     explanation |-> response.explanation,
     fen         |-> s.board]

\* the entry play_full_game appends to game_log after a turn
log_entry(s, response) ==
    [move_number |-> s.move_count,
     color       |-> IF s.move_count % 2 = 1 THEN "white" ELSE "black",
     move        |-> response.move,
     evaluation  |-> response.evaluation,
     explanation |-> response.explanation,
     fen         |-> s.board]

\* game_summary of play_full_game (the date is left out)
summary(s, log) ==
    [result      |-> IF s.result = "None" THEN "Game incomplete" ELSE s.result,
     total_moves |-> s.move_count,
     final_fen   |-> s.board,
     game_over   |-> s.game_over,
     moves       |-> log]

NoSummary ==
    [result |-> "none", total_moves |-> 0, final_fen |-> STARTING_FEN,
     game_over |-> FALSE, moves |-> <<>>]

(***************************************************************************)
(* Persistence.  A file name is [stamp, suffix]: the second of the clock   *)
(* and the text put between it and ".json".  A file is [complete, text]:   *)
(* text is the JSON document, complete says whether all of it was written. *)
(***************************************************************************)
Digits == <<"0", "1", "2", "3", "4", "5", "6", "7", "8", "9">>

\* the decimal digits of n > 0
RECURSIVE Decimal(_)
Decimal(n) == IF n = 0 THEN <<>> ELSE Decimal(n \div 10) \o <<Digits[(n % 10) + 1]>>

\* f"{counter:02d}"
TwoDigits(n) == IF n < 10 THEN <<"0", Digits[n + 1]>> ELSE Decimal(n)

\* f"game_{date_str}.json"
StampName(stamp) == [stamp |-> stamp, suffix |-> <<>>]

\* f"game_{date_str}_{counter:02d}.json"
CounterName(stamp, counter) == [stamp |-> stamp, suffix |-> <<"_">> \o TwoDigits(counter)]

\* the existence test made once: a taken name gets the suffix _01
FreeName_tests_once(fs, stamp, filepath, counter) ==
    IF filepath \in DOMAIN fs THEN CounterName(stamp, counter) ELSE filepath

\* the while loop of save_game: the first name that does not exist
RECURSIVE FreeName(_, _, _, _)
FreeName(fs, stamp, filepath, counter) ==
    IF filepath \in DOMAIN fs
    THEN FreeName(fs, stamp, CounterName(stamp, counter), counter + 1)
    ELSE filepath

\* the file name save_game writes to
ChosenName(fs, stamp) == FreeName(fs, stamp, StampName(stamp), 1)

\* a number and a string as JSON values
JsonNumber(n) == [number |-> n]

JsonString(str) == [string |-> str]

\* a dict of game_log written as a JSON object
JsonObject(entry) ==
    [kind        |-> "object",
     move_number |-> entry.move_number,
     color       |-> entry.color,
     move        |-> entry.move,
     evaluation  |-> JsonNumber(entry.evaluation),
     explanation |-> entry.explanation,
     fen         |-> entry.fen]

\* json.dump(game_summary): True and False are written true and false, the
\* dicts of moves as objects
JsonDump(gs) ==
    [result      |-> gs.result,
     total_moves |-> gs.total_moves,
     final_fen   |-> gs.final_fen,
     game_over   |-> IF gs.game_over THEN "true" ELSE "false",
     moves       |-> [i \in DOMAIN gs.moves |-> JsonObject(gs.moves[i])]]

\* json.load of a document that holds a record of a game
JsonLoad(text) ==
    [result      |-> text.result,
     total_moves |-> text.total_moves,
     final_fen   |-> text.final_fen,
     game_over   |-> text.game_over = "true",
     moves       |-> text.moves]

\* what open() and json.dump() can do: "ok", OSError on open (no file is
\* made), OSError while the document is written (the file is made and holds
\* the part written)
IoOutcomes == {"ok", "open_error", "write_error"}

\* the file json.dump left: all of the document, or a part of it
Written(gs, io) == [complete |-> io = "ok", text |-> JsonDump(gs)]

\* save_game writing to filepath: [ret, name, files]
SaveTo(fs, filepath, gs, io) ==
    [ret   |-> IF io = "ok" THEN "returned" ELSE "raised",
     name  |-> filepath,
     files |-> IF io = "open_error" THEN fs ELSE (filepath :> Written(gs, io)) @@ fs]

\* ChessGame.save_game at second stamp of the clock, the games directory
\* holding fs
save_game(fs, stamp, gs, io) == SaveTo(fs, ChosenName(fs, stamp), gs, io)

\* the summaries handed to direct save_game calls
SaveSummaries ==
    {summary(new_game, <<>>),
     summary(apply_move(new_game, e4).state,
             <<log_entry(apply_move(new_game, e4).state, JsonReply(e4))>>)}

(***************************************************************************)
(* Replay.  replay is [pc, end, data, i, board, shown, errors]: data the   *)
(* record loaded, i the index of the next recorded move, board the         *)
(* chess.Board the moves are pushed on, shown the FEN of the board after   *)
(* each move replayed, errors the indices of the moves reported as errors, *)
(* end how replay_game returned.                                           *)
(***************************************************************************)
\* what open(json_file) finds: no file, or the file
Missing == [exists |-> FALSE, complete |-> FALSE, text |-> [kind |-> "none"]]

FileAt(fs, name) ==
    IF name \in DOMAIN fs
    THEN [exists |-> TRUE, complete |-> fs[name].complete, text |-> fs[name].text]
    ELSE Missing

\* the keys replay_game reads from game_data before the first prompt (the
\* model's records carry no date)
HeaderKeys == {"result", "total_moves"}

\* the keys replay_game reads from a recorded move
MoveKeys == {"move_number", "color", "move", "evaluation", "explanation"}

\* what the user does at an input() prompt: Enter, Ctrl+C (KeyboardInterrupt)
\* or end of input (EOFError)
Keys == {"enter", "ctrl_c", "eof"}

\* replay_game has returned
Ended(how, rp) == [rp EXCEPT !.pc = "done", !.end = how]

\* the for loop goes on to the next recorded move, or is over
NextMove(rp) ==
    IF rp.i >= Len(rp.data.moves)
    THEN [rp EXCEPT !.pc = "done", !.end = "finished", !.i = rp.i + 1]
    ELSE [rp EXCEPT !.i = rp.i + 1]

\* the except branch of the for loop: the move is reported and the loop
\* continues
Reported(rp) == NextMove([rp EXCEPT !.errors = Append(@, rp.i)])

NoReplayData == [result |-> "none", total_moves |-> 0, moves |-> <<>>]

\* replay_game was not called
NoReplay ==
    [pc |-> "idle", end |-> "none", data |-> NoReplayData, i |-> 0,
     board |-> BoardFromFen(STARTING_FEN), shown |-> <<>>, errors |-> <<>>]

\* the header of the document text
Header(text) ==
    [result |-> text.result, total_moves |-> text.total_moves, moves |-> <<>>]

\* the for loop of replay_game starts on the record data
Started(data) ==
    NextMove([pc |-> "moves", end |-> "none", data |-> data, i |-> 0,
              board |-> BoardFromFen(STARTING_FEN), shown |-> <<>>,
              errors |-> <<>>])

\* replay_game from the first prompt to the first recorded move: Ctrl+C
\* cancels, the end of input and a document without moves end in the outer
\* except branch
Loaded(text, key) ==
    IF key = "ctrl_c" THEN Ended("cancelled", [NoReplay EXCEPT !.data = Header(text)])
    ELSE IF key = "eof" \/ "moves" \notin DOMAIN text
    THEN Ended("error", [NoReplay EXCEPT !.data = Header(text)])
    ELSE Started(JsonLoad(text))

\* replay_game(json_file) opening the file f: FileNotFoundError, a document
\* that is no JSON (a file written in part), a document without the keys of
\* a record, or the record
replay_open(f, key) ==
    IF ~f.exists THEN Ended("not found", NoReplay)
    ELSE IF ~f.complete THEN Ended("invalid json", NoReplay)
    ELSE IF ~(HeaderKeys \subseteq DOMAIN f.text) THEN Ended("error", NoReplay)
    ELSE Loaded(f.text, key)

\* the prompt after a move that was shown
Prompted(rp, move_num, key) ==
    IF move_num >= rp.data.total_moves \/ key = "enter" THEN NextMove(rp)
    ELSE IF key = "ctrl_c" THEN Ended("cancelled", rp)
    ELSE Reported(rp)

\* the move e was pushed and gave the board pushed: it is shown, unless its
\* evaluation is no number
Pushed(rp, e, pushed, key) ==
    IF "number" \notin DOMAIN e.evaluation
    THEN Reported([rp EXCEPT !.board = pushed])
    ELSE Prompted([rp EXCEPT !.board = pushed,
                             !.shown = Append(@, [i |-> rp.i, fen |-> Fen(pushed)])],
                  e.move_number, key)

ReplayParsed_skips_push(rp, e, parsed, key) ==
    IF parsed.status # "ok" THEN Reported(rp)
    ELSE Pushed(rp, e, rp.board, key)

\* the recorded move e once board.parse_san(move) has returned or raised
ReplayParsed(rp, e, parsed, key) ==
    IF parsed.status # "ok" THEN Reported(rp)
    ELSE Pushed(rp, e, Push(rp.board, parsed.move), key)

\* one pass of the for loop of replay_game over the recorded move e.  An entry
\* that is no object makes the except branch itself raise (move_data.get),
\* which ends the replay in the outer except branch.
replay_move(rp, e, key) ==
    IF e.kind # "object" THEN Ended("error", rp)
    ELSE IF ~(MoveKeys \subseteq DOMAIN e) THEN Reported(rp)
    ELSE ReplayParsed(rp, e, ParseSan(rp.board, e.move), key)

\* no call has returned since the caller took the last result
NoCall ==
    [op |-> "none", ret |-> "none", why |-> "none", text |-> <<>>, requests |-> 0,
     first |-> NotAsked, second |-> NotAsked, response |-> NoResponse]

\* the replies the second request can get: it is made only when the first
\* reply parsed and its move is not valid
SecondReplies(s, r1) ==
    IF r1.kind = "json" /\ ~is_valid_move(s, r1.move) THEN Replies ELSE {NotAsked}

\* the oracle board after a move the program applied
PushParsed(o, parsed) == IF parsed.status = "ok" THEN Push(o, parsed.move) ELSE o

OracleAfter(o, move_str) == PushParsed(o, ParseSan(o, move_str))

\* the games directory with no file in it: files maps the names of the files
\* that exist to their contents
EmptyDirectory == [n \in {} |-> <<>>]

\* save_game was not called
NoSave == [ret |-> "none", name |-> <<>>]


Init ==
    /\ state = new_game
    /\ last = NoCall
    /\ oracle = BoardFromFen(STARTING_FEN)
    /\ applied = 0
    /\ pc = "idle"
    /\ max_moves = 0
    /\ game_log = <<>>
    /\ game_summary = NoSummary
    /\ asked = 0
    /\ iterations = 0
    /\ files = EmptyDirectory
    /\ clock = 0
    /\ saved = NoSave
    /\ replay = NoReplay

\* a call apply_move(t) that gave a
ApplyStep(t, a) ==
    /\ state' = a.state
    /\ last' = [NoCall EXCEPT !.op = "apply_move", !.ret = a.ret, !.why = a.why,
                              !.text = t]
    /\ oracle' = IF a.ret = "True" THEN OracleAfter(oracle, t) ELSE oracle
    /\ applied' = IF a.ret = "True" THEN applied + 1 ELSE applied
    /\ UNCHANGED <<pc, max_moves, game_log, game_summary, asked, iterations, outside>>

\* a caller calls apply_move with one of the texts
ApplyMoveOf(texts, bound) ==
    /\ pc = "idle"
    /\ last = NoCall
    /\ state.move_count < bound
    /\ \E t \in texts : ApplyStep(t, apply_move(state, t))

\* a call play_turn() that gave r, the proposer answering r1 to the first
\* request and r2 to the second
TurnStep(r1, r2, r) ==
    /\ state' = r.state
    /\ last' = [NoCall EXCEPT !.op = "play_turn",
                              !.ret = IF r.raised THEN "raised" ELSE "returned",
                              !.why = r.why, !.text = r.response.move,
                              !.requests = r.requests,
                              !.first = IF r.requests >= 1 THEN r1 ELSE NotAsked,
                              !.second = IF r.requests = 2 THEN r2 ELSE NotAsked,
                              !.response = r.response]
    /\ oracle' = IF r.applied THEN OracleAfter(oracle, r.response.move) ELSE oracle
    /\ applied' = IF r.applied THEN applied + 1 ELSE applied
    /\ UNCHANGED <<pc, max_moves, game_log, game_summary, asked, iterations, outside>>

\* a caller calls play_turn
PlayTurn ==
    /\ pc = "idle"
    /\ last = NoCall
    /\ state.move_count < MaxTurns
    /\ \E r1 \in Replies : \E r2 \in SecondReplies(state, r1) :
          TurnStep(r1, r2, play_turn(state, r1, r2))

\* the caller takes the result of the call
Return ==
    /\ last # NoCall
    /\ last' = NoCall
    /\ UNCHANGED <<state, oracle, applied, pc, max_moves, game_log, game_summary,
                   asked, iterations, outside>>

\* play_full_game(m) is called on a new game
StartFullGame ==
    /\ pc = "idle"
    /\ last = NoCall
    /\ state = new_game
    /\ \E m \in 0..MaxMatch : max_moves' = m
    /\ game_log' = <<>>
    /\ pc' = "loop"
    /\ UNCHANGED <<state, last, oracle, applied, game_summary, asked, iterations, outside>>

\* the loop going round again after play_turn raised
LoopStep_retries(r) ==
    /\ state' = r.state
    /\ oracle' = IF r.applied THEN OracleAfter(oracle, r.response.move) ELSE oracle
    /\ applied' = IF r.applied THEN applied + 1 ELSE applied
    /\ game_log' = IF r.raised THEN game_log
                   ELSE Append(game_log, log_entry(r.state, r.response))
    /\ pc' = "loop"
    /\ asked' = asked + r.requests
    /\ iterations' = iterations + 1
    /\ UNCHANGED <<last, max_moves, game_summary, outside>>

\* one pass of the loop, play_turn having given r: the turn is logged, or the
\* exception of play_turn breaks the loop
LoopStep(r) ==
    /\ state' = r.state
    /\ oracle' = IF r.applied THEN OracleAfter(oracle, r.response.move) ELSE oracle
    /\ applied' = IF r.applied THEN applied + 1 ELSE applied
    /\ game_log' = IF r.raised THEN game_log
                   ELSE Append(game_log, log_entry(r.state, r.response))
    /\ pc' = IF r.raised THEN "break" ELSE "loop"
    /\ asked' = asked + r.requests
    /\ iterations' = iterations + 1
    /\ UNCHANGED <<last, max_moves, game_summary, outside>>

LoopTurn ==
    /\ pc = "loop"
    /\ loop_condition(state, max_moves)
    /\ \E r1 \in Replies : \E r2 \in SecondReplies(state, r1) :
          LoopStep(play_turn(state, r1, r2))

\* the loop is left and play_full_game returns game_summary
EndFullGame ==
    /\ pc = "break" \/ (pc = "loop" /\ ~loop_condition(state, max_moves))
    /\ game_summary' = summary(state, game_log)
    /\ pc' = "done"
    /\ UNCHANGED <<state, last, oracle, applied, max_moves, game_log, asked, iterations, outside>>

\* a call save_game(game_summary) that gave r
SaveStep(r) ==
    /\ files' = r.files
    /\ saved' = [ret |-> r.ret, name |-> r.name]

\* main_game saves the summary play_full_game returned; an exception ends
\* main_game in its except branch
SaveGame ==
    /\ pc = "done"
    /\ \E io \in IoOutcomes : SaveStep(save_game(files, clock, game_summary, io))
    /\ pc' = IF saved'.ret = "returned" THEN "saved" ELSE "error"
    /\ UNCHANGED <<state, last, oracle, applied, max_moves, game_log, game_summary,
                   asked, iterations, clock, replay>>

\* a caller calls save_game
SaveAny ==
    /\ pc = "idle"
    /\ Cardinality(DOMAIN files) < MaxFiles
    /\ \E gs \in SaveSummaries : \E io \in IoOutcomes :
          SaveStep(save_game(files, clock, gs, io))
    /\ UNCHANGED <<state, last, oracle, applied, pc, max_moves, game_log,
                   game_summary, asked, iterations, clock, replay>>

\* a second passes
Tick ==
    /\ clock < MaxClock
    /\ clock' = clock + 1
    /\ UNCHANGED <<state, last, oracle, applied, pc, max_moves, game_log,
                   game_summary, asked, iterations, files, saved, replay>>

\* a recorded move of a file that save_game need not have written
RecordedEntry(move, evaluation, n) ==
    [kind        |-> "object",
     move_number |-> n,
     color       |-> IF n % 2 = 1 THEN "white" ELSE "black",
     move        |-> move,
     evaluation  |-> evaluation,
     explanation |-> "analysis"]

\* the move texts of such a file: legal for White, legal for Black, a move
\* that is not legal for either at the start, a text that is no SAN, and the
\* null move
ReplayTexts == {e4, e5, Qh4, Garbage, NullText}

\* the n-th entry of moves: a recorded move, one whose evaluation is a
\* string, an object without the key 'move', or a string
EntriesAt(n) ==
    {RecordedEntry(t, JsonNumber(1), n) : t \in ReplayTexts}
        \cup {RecordedEntry(e4, JsonString("n/a"), n),
              [kind |-> "object", move_number |-> n],
              [kind |-> "string"]}

RECURSIVE RecordedMoves(_)
\* the lists of n entries
RecordedMoves(n) ==
    IF n = 0 THEN {<<>>}
    ELSE {Append(ms, e) : ms \in RecordedMoves(n - 1), e \in EntriesAt(n)}

\* a document with the keys of a record
RecordText(ms) ==
    [result      |-> "Game incomplete",
     total_moves |-> Len(ms),
     final_fen   |-> STARTING_FEN,
     game_over   |-> "false",
     moves       |-> ms]

\* what replay_game may be handed: no file, a file that is no JSON, a JSON
\* document that is no record, a record without moves, and records of up to
\* MaxRecord entries
ReplayFiles ==
    {Missing,
     [exists |-> TRUE, complete |-> FALSE, text |-> RecordText(<<>>)],
     [exists |-> TRUE, complete |-> TRUE, text |-> [kind |-> "array"]],
     [exists |-> TRUE, complete |-> TRUE,
      text |-> [result |-> "1-0", total_moves |-> 1]]}
        \cup {[exists |-> TRUE, complete |-> TRUE, text |-> RecordText(ms)] :
                 ms \in UNION {RecordedMoves(n) : n \in 0..MaxRecord}}

\* a step of replay_game that gave rp
ReplayStep(rp) ==
    /\ replay' = rp
    /\ UNCHANGED <<state, last, oracle, applied, pc, max_moves, game_log,
                   game_summary, asked, iterations, files, clock, saved>>

\* replay_game is called on the file main_game saved
ReplaySaved ==
    /\ pc \in {"saved", "error"}
    /\ replay.pc = "idle"
    /\ \E key \in Keys : ReplayStep(replay_open(FileAt(files, saved.name), key))

\* replay_game is called on some file
ReplayAny ==
    /\ pc = "idle"
    /\ replay.pc = "idle"
    /\ \E f \in ReplayFiles : \E key \in Keys : ReplayStep(replay_open(f, key))

\* one pass of the for loop of replay_game
ReplayMove ==
    /\ replay.pc = "moves"
    /\ \E key \in Keys :
          ReplayStep(replay_move(replay, replay.data.moves[replay.i], key))

ApplyMove == ApplyMoveOf(MoveTexts, MaxPlies)

CallerApplies == ApplyMoveOf(ProposerTexts, MaxTurns)

ShuffleMove == ApplyMoveOf(ShuffleTexts, MaxShuffle)

\* the turn controller and direct apply_move calls
Next == CallerApplies \/ PlayTurn \/ Return

Spec == Init /\ [][Next]_vars

\* direct apply_move calls
NextApply == ApplyMove \/ Return

SpecApply == Init /\ [][NextApply]_vars

\* direct apply_move calls shuffling the knights
NextShuffle == ShuffleMove \/ Return

SpecShuffle == Init /\ [][NextShuffle]_vars

\* main_game: play_full_game, then save_game; then a replay of the file
NextMatch ==
    StartFullGame \/ LoopTurn \/ EndFullGame \/ SaveGame \/ ReplaySaved \/ ReplayMove

SpecMatch == Init /\ [][NextMatch]_vars

\* play_full_game alone
NextLoop == StartFullGame \/ LoopTurn \/ EndFullGame

\* a LoopTurn step, told by what it does to iterations: LoopTurn is enabled
\* exactly when the loop condition holds and is the one step of NextLoop that
\* counts a pass
PassTaken ==
    /\ pc = "loop"
    /\ loop_condition(state, max_moves)
    /\ iterations' = iterations + 1

\* a pass that can be taken is taken in the end (a proposer call returns or
\* raises), and so is the return of play_full_game
SpecLoop == Init /\ [][NextLoop]_vars /\ WF_iterations(PassTaken) /\ WF_vars(EndFullGame)

\* the calls that play: apply_move, play_turn and play_full_game
NextPlay == Next \/ StartFullGame \/ LoopTurn \/ EndFullGame

SpecPlay == Init /\ [][NextPlay]_vars

\* replay_game on any file
NextReplay == ReplayAny \/ ReplayMove

SpecReplay == Init /\ [][NextReplay]_vars

\* save_game calls while the clock runs
NextDisk == SaveAny \/ Tick

SpecDisk == Init /\ [][NextDisk]_vars

(***************************************************************************)
(* Properties.                                                             *)
(***************************************************************************)
\* the board of self.state before the call
Before == BoardFromFen(state.board)

\* the step is a call of apply_move
ApplyCall == last'.op = "apply_move"

\* the step is a call of play_turn
TurnCall == last'.op = "play_turn"

\* the reply parsed and its move is not valid on self.state
IllegalReply(r) == r.kind = "json" /\ ~is_valid_move(state, r.move)

\* the step is a turn that ended with the first legal move, evaluation 0.0,
\* applied
FallbackApplied ==
    /\ last'.ret = "returned"
    /\ last'.response.move = San(Before, FirstLegalMove(Before))
    /\ last'.response.evaluation = 0
    /\ state'.move_count = state.move_count + 1
    /\ state'.board = Fen(Push(Before, FirstLegalMove(Before)))

\* C1: terminal is absorbing: in every state where game_over is true,
\* apply_move returns False for every move text and leaves board, turn,
\* move_count, history, game_over and result unchanged.
C1_TerminalAbsorbing ==
    [][(state.game_over /\ ApplyCall) => (last'.ret = "False" /\ state' = state)]_vars

\* C2: when the proposer's move is illegal on the first request and on the
\* hint-retry request of a turn in a non-terminal position, the turn ends with
\* the oracle's first legal move, evaluation 0.0, applied: move_count is one
\* more.
C2_IllegalTwiceFallsBack ==
    [][(/\ TurnCall
        /\ ~state.game_over
        /\ IllegalReply(last'.first)
        /\ IllegalReply(last'.second)) => FallbackApplied]_vars

\* C3: when a proposer call fails in a non-terminal position (it raises,
\* returns an empty reply or a malformed one), on the first or on the
\* hint-retry request, get_ai_move returns the first legal move with
\* evaluation 0.0 and play_turn applies it.
C3_FailureFallsBack ==
    [][(/\ TurnCall
        /\ ~state.game_over
        /\ \/ last'.first.kind \in FailKinds
           \/ last'.second.kind \in FailKinds) => FallbackApplied]_vars

\* a turn whose hint-retry request got an empty reply went on with the first
\* legal move of the third ply
C3_Witness ==
    /\ last.op = "play_turn"
    /\ last.first.kind = "json"
    /\ last.second.kind = "empty"
    /\ last.ret = "returned"
    /\ last.response.evaluation = 0
    /\ state.move_count = 3
    /\ Len(state.history) = 3

\* C4: in every turn the proposer is asked at most twice: once, and a second
\* time exactly when the first reply parsed but its move is illegal.
C4_AtMostTwoRequests ==
    [][TurnCall =>
        /\ last'.requests \in 0..2
        /\ ~state.game_over => last'.requests >= 1
        /\ last'.requests = 2 <=> (~state.game_over /\ IllegalReply(last'.first))]_vars

\* a turn in which the proposer was asked twice, and a legal second reply
\* was played
C4_Witness ==
    /\ last.op = "play_turn"
    /\ last.requests = 2
    /\ last.first.kind = "json"
    /\ last.second.kind = "json"
    /\ last.ret = "returned"
    /\ last.response.evaluation = 1

\* the side to move after n applied moves
TurnAfter(n) == IF n % 2 = 0 THEN "white" ELSE "black"

\* C5: after apply_move calls of which N succeeded, turn is white if N is
\* even and black if N is odd; a rejected apply_move does not flip the turn.
C5_TurnParity ==
    /\ [](state.turn = TurnAfter(applied))
    /\ [][(ApplyCall /\ last'.ret = "False") => state'.turn = state.turn]_vars

\* a move was rejected after three were applied: it is black's turn
C5_Witness ==
    /\ last.op = "apply_move"
    /\ last.ret = "False"
    /\ applied = 3
    /\ state.turn = "black"

\* C6: in every state reachable by apply_move and play_turn, move_count
\* equals the length of history.
C6_CountIsHistoryLength == state.move_count = Len(state.history)

\* C7: a rejected apply_move has no side effects: when it returns False,
\* board, turn, move_count, history, game_over and result are what they were.
C7_RejectionKeepsState ==
    [][(ApplyCall /\ last'.ret = "False") => state' = state]_vars

\* an ambiguous move text (Ne2 with knights on c3 and g1) was rejected
C7_Witness ==
    /\ last.op = "apply_move"
    /\ last.ret = "False"
    /\ last.why = "ambiguous"
    /\ last.text = Ne2

\* C8: in every state reached by successful apply_move calls, game_over is
\* true iff the oracle fed the same moves reports the game over.
C8_GameOverIffOracle == state.game_over <=> IsGameOver(oracle)

\* C9: no drift: after each move applied through apply_move, state.board is
\* the position of one oracle board the same moves were pushed on.
C9_NoDrift == state.board = Fen(oracle)

\* the en-passant capture exf6 was applied as the fifth move
C9_Witness ==
    /\ last.op = "apply_move"
    /\ last.ret = "True"
    /\ last.text = exf6
    /\ state.move_count = 5
    /\ Len(oracle.stack) = 5

\* C10: play_full_game(max_moves) from a new game never applies more than
\* max_moves moves; when the loop stops because move_count reached max_moves
\* with no terminal condition, the summary has result "Game incomplete",
\* game_over false and total_moves = max_moves.
C10_MaxMovesStopsMatch ==
    /\ applied <= max_moves
    /\ (pc = "done" /\ ~state.game_over /\ state.move_count = max_moves) =>
          /\ game_summary.result = "Game incomplete"
          /\ game_summary.game_over = FALSE
          /\ game_summary.total_moves = max_moves

\* a match of three moves stopped at max_moves = 3
C10_Witness ==
    /\ pc = "done"
    /\ max_moves = 3
    /\ applied = 3
    /\ ~state.game_over
    /\ Len(game_summary.moves) = 3
    /\ game_summary.result = "Game incomplete"

\* C11: when a move applied during play_full_game makes the position
\* terminal before max_moves is reached, the loop stops at once: no further
\* proposer request, no further move, and the summary has game_over true,
\* total_moves < max_moves and the oracle's result for the final position.
C11_MateStopsMatch ==
    /\ [][(pc = "loop" /\ state.game_over) =>
            (pc' = "done" /\ asked' = asked /\ applied' = applied /\ state' = state)]_vars
    /\ []((pc = "done" /\ state.game_over /\ state.move_count < max_moves) =>
            /\ game_summary.game_over = TRUE
            /\ game_summary.total_moves < max_moves
            /\ game_summary.total_moves = applied
            /\ IsGameOver(oracle)
            /\ game_summary.result = ResultOf(oracle, Outcome(oracle)))

\* black mated on the fourth move of a match allowed five
C11_Witness ==
    /\ pc = "done"
    /\ max_moves = 5
    /\ game_summary.game_over = TRUE
    /\ game_summary.total_moves = 4
    /\ game_summary.result = "0-1"
    /\ Outcome(oracle) = "checkmate"

\* the step is a turn of play_full_game's loop
LoopPass == pc = "loop" /\ loop_condition(state, max_moves)

\* C12: hard stop: when a turn's move fails to apply, play_full_game does not
\* retry and does not raise: it leaves the loop and returns a summary whose
\* moves are the moves applied before, with result "Game incomplete" and
\* game_over false, and main_game saves that summary.
C12_HardStop ==
    /\ [][(LoopPass /\ applied' = applied) =>
            (pc' = "break" /\ state' = state /\ game_log' = game_log)]_vars
    /\ [][pc = "break" =>
            /\ pc' = "done"
            /\ state' = state /\ asked' = asked
            /\ game_summary'.moves = game_log
            /\ Len(game_log) = applied
            /\ game_summary'.total_moves = applied
            /\ game_summary'.result = "Game incomplete"
            /\ game_summary'.game_over = FALSE]_vars
    /\ [][pc = "done" =>
            /\ pc' \in {"saved", "error"}
            /\ saved'.name \notin DOMAIN files
            /\ pc' = "saved" =>
                  files'[saved'.name] = [complete |-> TRUE, text |-> JsonDump(game_summary)]]_vars

\* a match of five that failed in its third turn was saved with two moves
C12_Witness ==
    /\ pc = "saved"
    /\ max_moves = 5
    /\ asked = 4
    /\ game_summary.game_over = FALSE
    /\ game_summary.result = "Game incomplete"
    /\ Len(game_summary.moves) = 2
    /\ Len(files[saved.name].text.moves) = 2

\* C13: every turn play_full_game attempts adds one entry to the match log,
\* whether the turn's move was applied or the turn failed.
C13_EveryTurnLogged == [][LoopPass => Len(game_log') = Len(game_log) + 1]_vars

\* the step is a call of save_game that made or changed a file
Wrote == files' # files

\* name n is the one the naming rule gives at this second: the timestamp
\* name, else the first free suffix counting up from 01
RuleName(n) ==
    \E k \in 0..MaxFiles + 1 :
        /\ n = IF k = 0 THEN StampName(clock) ELSE CounterName(clock, k)
        /\ StampName(clock) \in DOMAIN files \/ k = 0
        /\ \A j \in 1..k - 1 : CounterName(clock, j) \in DOMAIN files

\* C14: save_game never overwrites: each call writes to a file name that did
\* not exist before the call (the timestamp name, else the first free _NN
\* suffix from 01), so k saves leave k distinct files.
C14_SaveNeverOverwrites ==
    [][Wrote =>
        /\ saved'.name \notin DOMAIN files
        /\ RuleName(saved'.name)
        /\ DOMAIN files' = DOMAIN files \cup {saved'.name}
        /\ \A n \in DOMAIN files : files'[n] = files[n]]_vars

\* three files were written within one second: the timestamp name, _01, _02
C14_Witness ==
    /\ saved.ret = "returned"
    /\ saved.name = [stamp |-> 1, suffix |-> <<"_", "0", "2">>]
    /\ {StampName(1), CounterName(1, 1), CounterName(1, 2)} \subseteq DOMAIN files
    /\ Cardinality(DOMAIN files) = 4

\* C15: save_game is atomic: after a call either the target file holds the
\* complete record, or the call surfaced an error and no file exists under
\* the chosen name.
C15_SaveAtomic ==
    saved.ret # "none" =>
        \/ saved.ret = "returned" /\ saved.name \in DOMAIN files
                                  /\ files[saved.name].complete
        \/ saved.ret = "raised" /\ saved.name \notin DOMAIN files

\* C16: round trip: a match played by play_full_game from new_game, written
\* by save_game, loaded again and replayed from the start gives the same
\* total_moves and result, and the board after the i-th replayed move is the
\* position of the i-th log entry.
C16_RoundTrip ==
    (pc = "saved" /\ replay.pc # "idle") =>
        /\ replay.data.total_moves = game_summary.total_moves
        /\ replay.data.result = game_summary.result
        /\ \A j \in DOMAIN replay.shown :
              /\ replay.shown[j].i = j
              /\ replay.shown[j].fen = game_log[j].fen
        /\ replay.end = "finished" =>
              /\ Len(replay.shown) = game_summary.total_moves
              /\ Len(replay.shown) = Len(game_log)
              /\ Fen(replay.board) = game_summary.final_fen

\* the fool's mate was played, saved and replayed to its last move
C16_Witness ==
    /\ pc = "saved"
    /\ replay.end = "finished"
    /\ Len(replay.shown) = 4
    /\ replay.data.result = "0-1"
    /\ replay.errors = <<>>

\* the text does not parse as a legal move of board b
NotLegalText(b, text) ==
    \/ ParseSan(b, text).status # "ok"
    \/ ~IsLegal(b, ParseSan(b, text).move)

\* the next recorded move of the replay is an object with its keys whose move
\* text does not parse or is not legal on the board of the replay
BadMove ==
    /\ replay.pc = "moves"
    /\ replay.data.moves[replay.i].kind = "object"
    /\ MoveKeys \subseteq DOMAIN replay.data.moves[replay.i]
    /\ NotLegalText(replay.board, replay.data.moves[replay.i].move)

ReplayEnds == {"finished", "cancelled", "not found", "invalid json", "error"}

\* C17: replay_game never fails: a recorded move that does not parse or is
\* not legal in the position reached is reported for that move only, the
\* board is left unchanged and the replay goes on with the next recorded
\* move; for any record content, a missing file or a file that is no JSON
\* replay_game returns normally.
C17_ReplayNeverFails ==
    /\ [][BadMove =>
            /\ replay'.board = replay.board
            /\ replay'.shown = replay.shown
            /\ replay'.errors = Append(replay.errors, replay.i)
            /\ replay'.i = replay.i + 1
            /\ IF replay.i < Len(replay.data.moves)
               THEN replay'.pc = "moves"
               ELSE replay'.pc = "done" /\ replay'.end = "finished"]_vars
    /\ [](/\ replay.pc \in {"idle", "moves", "done"}
          /\ replay.pc = "done" <=> replay.end \in ReplayEnds
          /\ replay.pc = "moves" => replay.i \in 1..Len(replay.data.moves))

\* C18: in every state reachable from new_game through apply_move and
\* play_turn, the turn field agrees with the side to move of the board FEN:
\* turn is white exactly when the FEN says white is to move.
C18_TurnAgreesWithFen ==
    /\ state.turn \in {"white", "black"}
    /\ state.turn = "white" <=> state.board.turn = "w"

\* a play_turn applied the third move: the field and the FEN say black
C18_Witness ==
    /\ last.op = "play_turn"
    /\ last.ret = "returned"
    /\ state.move_count = 3
    /\ state.turn = "black"
    /\ state.board.turn = "b"

\* the values board.result() gives for a game that is over
Results == {"1-0", "0-1", "1/2-1/2"}

\* the step is a play_turn call or a step of play_full_game
MatchLoopStep == last'.op = "play_turn" \/ pc # "idle"

\* C19: in every reachable state result is set (1-0, 0-1 or 1/2-1/2) if and
\* only if game_over is true, and both are monotone: once game_over is true
\* no operation of the match loop (play_turn, play_full_game) resets it or
\* changes result.
C19_ResultIffGameOver ==
    /\ [](/\ state.result \in Results \cup {"None"}
          /\ state.result \in Results <=> state.game_over)
    /\ [][(state.game_over /\ MatchLoopStep) =>
            (state'.game_over /\ state'.result = state.result)]_vars

\* play_turn was called after the mate and raised: the result is still 0-1
C19_Witness ==
    /\ last.op = "play_turn"
    /\ last.ret = "raised"
    /\ state.game_over
    /\ state.result = "0-1"
    /\ Outcome(oracle) = "checkmate"

\* play_full_game has returned its summary
Returned == pc \in {"done", "saved", "error"}

\* C20: in every summary returned by play_full_game started from new_game the
\* moves list has exactly total_moves entries, the i-th entry has
\* move_number = i, and its color is the side that made that move: white for
\* odd i, black for even i.
C20_SummaryNumbering ==
    Returned =>
        /\ Len(game_summary.moves) = game_summary.total_moves
        /\ \A i \in DOMAIN game_summary.moves :
              /\ game_summary.moves[i].move_number = i
              /\ game_summary.moves[i].color = (IF i % 2 = 1 THEN "white" ELSE "black")
              /\ game_summary.moves[i].color = "white"
                    <=> game_summary.moves[i].fen.turn = "b"

\* a summary of four moves: the fourth is numbered 4 and is black's
C20_Witness ==
    /\ pc = "done"
    /\ game_summary.total_moves = 4
    /\ Len(game_summary.moves) = 4
    /\ game_summary.moves[4].move_number = 4
    /\ game_summary.moves[4].color = "black"
    /\ game_summary.moves[3].color = "white"

\* C21: play_full_game always terminates, provided every proposer call
\* returns or raises: each pass of the loop either increases move_count by
\* one or leaves the loop, so the loop runs at most max_moves passes and makes
\* at most 2 * max_moves proposer requests, whatever the proposer answers.
C21_MatchTerminates ==
    /\ [][LoopPass =>
            /\ iterations' = iterations + 1
            /\ asked' <= asked + 2
            /\ \/ pc' = "loop" /\ state'.move_count = state.move_count + 1
               \/ pc' = "break" /\ state'.move_count = state.move_count]_vars
    /\ [](iterations <= max_moves /\ asked <= 2 * max_moves)
    /\ (pc = "loop") ~> (pc = "done")

\* a match of max_moves passes, each with two proposer requests, has returned
C21_Witness ==
    /\ pc = "done"
    /\ max_moves >= 3
    /\ iterations = max_moves
    /\ asked = 2 * max_moves

=============================================================================
